---- MODULE Spec2Model ----
(***************************************************************************)
(* Durable client-side logging pipeline of the Trust Doors experiment:     *)
(*   src/logging/index.js  (src/unnamed/part_010)  delivery engine         *)
(*   src/logging/idb.js    (src/src/logging/idb.js) durable store          *)
(*   src/logging/build.js  (src/src/logging/build.js) logTrialRow          *)
(*   src/main.js           (src/src/main.js) wake-ups, withdrawal          *)
(*                                                                         *)
(* The page is one event loop.  Every action below is one task of that     *)
(* loop run to its next suspension point: a handler, a timer callback, a   *)
(* network response or the completion of a storage operation, together     *)
(* with the continuation of the async function awaiting it.                *)
(*                                                                         *)
(* Storage operations are asynchronous.  Each one starts with idbOpen();   *)
(* open requests on one database are served in request order and           *)
(* overlapping transactions run in creation order, so the operations take  *)
(* effect in the order they were issued.  opq is that order: the           *)
(* operations issued and not yet completed.                                *)
(***************************************************************************)
EXTENDS Integers, Sequences, FiniteSets, TLC

(* ------------------------------ bounds -------------------------------- *)

\* Limits of the environment under Spec: logTrialRow calls the trial layer
\* makes, rows of the end-of-run bulk logEnqueue (main.js on_finish), and
\* consecutive send failures (the cap of LOG_RETRY_ATTEMPTS).
MaxCalls == 2
MaxBulk == 2
MaxRetry == 10
\* The same limits under FairSpec, where liveness is checked.
LiveCalls == 1
LiveBulk == 2
LiveRetry == 3
\* flushQueue activations the model can hold at once.
MaxDrains == 2
\* setTimeout callbacks the model can hold at once.
MaxTimers == 2
\* The limits under ApiSpec, where the page also calls the exported
\* logEnqueue directly: MaxDirect calls of up to MaxDirectRows rows.
ApiCalls == 1
ApiBulk == 1
ApiRetry == 1
MaxDirect == 1
MaxDirectRows == 1
\* The limits under DelSpec, where the page also calls the exported
\* requestDeleteByParticipant directly, MaxDeletes times.
DelCalls == 1
DelBulk == 0
DelRetry == 1
MaxDeletes == 3
\* The limits under NormSpec, where buildRowsForLogging is called on its
\* own: calls, and records of one call with several records.
MaxBuilds == 2
MaxRecs == 2
\* The limit under TrialSpec: logTrialRow calls with the record in full.
TrialCalls == 3
\* The limits under FaultSpec, where storage operations can fail.
FaultCalls == 2
FaultRetry == 1
\* The limits under ProbeSpec, where the outcome of idbOpen can change.
ProbeCalls == 2
ProbeRetry == 1
\* The limits under BeaconSpec, where pagehide runs flushSyncBeacon: rows
\* enqueued, and pagehide events (a page restored from the back/forward
\* cache can be hidden again).
MaxBeaconRows == 3
MaxHides == 2
\* LOG_BATCH_SIZE is 25 in the source (part_010:16); the model scales the
\* batch down so that a queue longer than one batch stays small.
LOG_BATCH_SIZE == 2

(* ------------------------------ state --------------------------------- *)

VARIABLES
    LOG_BUFFER,          \* window.__LOG_BUFFER__: in-memory mirror, a sequence of rows
    idb,                 \* IndexedDB store 'events': entries [id, row] in key order
    idbNextKey,          \* the store's autoIncrement key generator
    ls,                  \* localStorage 'log_queue_ls': a sequence of rows
    idbAvailable,        \* whether idbOpen() yields a database
    env,                 \* the environment of this run: limits [calls, bulk, retry], sendBeacon present [beacon]
    LOG_RETRY_ATTEMPTS,
    LOG_FLUSHING,
    LOG_BACKOFF_TIMER,   \* TRUE when the variable holds a timer handle, FALSE when null
    timers,              \* pending setTimeout callbacks of scheduleFlush: their delays
    DISCARD_DATA,        \* window.__DISCARD_DATA__
    LOG_SEQ,             \* window.LOG_SEQ; 0 stands for "not yet a number"
    drains,              \* flushQueue activations: slot -> [pc, batch, trigger]
    opq,                 \* storage operations issued and not yet completed
    calls,               \* logTrialRow calls made so far
    finished,            \* the jsPsych on_finish handler has run
    nrows,               \* rows handed to logEnqueue so far; rows are numbered 1..nrows
    everSent,            \* history: rows carried by some batch POST
    acked,               \* history: rows of batches whose POST was acknowledged
    clearedAt,           \* history: value of calls when clearLocalQueue's store clear completed (-1: not yet)
    backoffMs,           \* history: delay computed for the current failure run (0: none)
    ignored,             \* history: delay of a scheduleFlush call ignored by the pending timer (-1: none)
    UA_EMITTED,          \* window.__UA_EMITTED__
    allTrials,           \* the last buildRowsForLogging call: its argument
    result,              \* the last buildRowsForLogging call: the rows it returned
    threw,               \* the last buildRowsForLogging call ended in an exception
    builds,              \* buildRowsForLogging calls made so far
    uaLog,               \* history: per row returned this session, whether it carries the raw user agent
    direct,              \* direct logEnqueue calls made so far
    del,                 \* requestDeleteByParticipant: calls made, directives issued, fetches in flight
    bytes,               \* per row number: length of the row's JSON once URI-encoded
    fsb,                 \* flushSyncBeacon: position [pc, sliceStart, end, blob] and calls made
    beacons,             \* history: the payloads flushSyncBeacon handed to sendBeacon
    rejected,            \* history: logEnqueue promises that ended rejected
    caught               \* history: exceptions logTrialRow's catch block took

vars == <<LOG_BUFFER, idb, idbNextKey, ls, idbAvailable, env, LOG_RETRY_ATTEMPTS,
          LOG_FLUSHING, LOG_BACKOFF_TIMER, timers, DISCARD_DATA, LOG_SEQ,
          drains, opq, calls, finished, nrows, everSent, acked, clearedAt,
          backoffMs, ignored, UA_EMITTED, allTrials, result, threw, builds, uaLog, direct, del,
          bytes, fsb, beacons, rejected, caught>>

storeVars == <<idb, idbNextKey, ls>>
envVars == <<idbAvailable, env>>
histVars == <<everSent, acked, clearedAt, backoffMs>>
normVars == <<UA_EMITTED, allTrials, result, threw, builds, uaLog>>
apiVars == <<direct, del>>
beaconVars == <<bytes, fsb, beacons>>
errVars == <<rejected, caught>>
\* What the delivery engine's own steps never touch.
auxVars == <<normVars, apiVars, beaconVars, errVars>>

(* ------------------------------ helpers ------------------------------- *)

Max(a, b) == IF a >= b THEN a ELSE b

Min(a, b) == IF a <= b THEN a ELSE b

RECURSIVE Pow2(_)
Pow2(n) == IF n = 0 THEN 1 ELSE 2 * Pow2(n - 1)

Range(s) == {s[i] : i \in 1..Len(s)}

Rows(batch) == {batch[i].row : i \in 1..Len(batch)}

Ids(batch) == {batch[i].id : i \in 1..Len(batch)}

\* Array.prototype.splice(0, n) on a sequence: what is left.
SpliceHead(s, n) == SubSeq(s, Min(n, Len(s)) + 1, Len(s))

RemoveAt(s, i) == SubSeq(s, 1, i - 1) \o SubSeq(s, i + 1, Len(s))

DrainSlots == 1..MaxDrains

IdleDrain == [pc |-> "idle", batch |-> <<>>, trigger |-> -1]

ActiveDrains == {s \in DrainSlots : drains[s].pc # "idle"}

FreeSlots == DrainSlots \ ActiveDrains

Op(kind, slot, rows, batch) == [kind |-> kind, slot |-> slot, rows |-> rows, batch |-> batch]

(* --------------------------- idb.js ----------------------------------- *)

\* idbPutAll(rows): the IndexedDB branch adds one entry per row under the
\* next autoIncrement keys; the fallback appends to the localStorage array.
idbPutAll_idb(rows) == idb \o [i \in 1..Len(rows) |-> [id |-> idbNextKey + i - 1, row |-> rows[i]]]

\* The fallback idbPutAll putting the new rows in front of the array.
idbPutAll_ls_Prepend(rows) == rows \o ls

idbPutAll_ls(rows) == ls \o rows

\* idbReadBatch taking the newest entries instead of the oldest.
idbReadBatch_Tail(limit) ==
    IF idbAvailable
    THEN SubSeq(idb, Len(idb) - Min(limit, Len(idb)) + 1, Len(idb))
    ELSE [i \in 1..Min(limit, Len(ls)) |-> [id |-> i - 1, row |-> ls[Len(ls) - Min(limit, Len(ls)) + i]]]

\* idbReadBatch(limit): up to limit entries from the head, not removed.
\* The fallback gives entry i the synthetic id 'ls_i' and _rawIndex i.
idbReadBatch(limit) ==
    IF idbAvailable
    THEN SubSeq(idb, 1, Min(limit, Len(idb)))
    ELSE [i \in 1..Min(limit, Len(ls)) |-> [id |-> i - 1, row |-> ls[i]]]

\* idbDeleteIds(items): by primary key in IndexedDB; the fallback drops the
\* first items.length entries.
\* idbDeleteIds_idb deleting only the first item's key.
idbDeleteIds_idb_FirstOnly(items) == SelectSeq(idb, LAMBDA e : items = <<>> \/ e.id # items[1].id)

idbDeleteIds_idb(items) == SelectSeq(idb, LAMBDA e : e.id \notin Ids(items))

\* idbDeleteIds_ls dropping the last items.length entries.
idbDeleteIds_ls_FromTail(items) == SubSeq(ls, 1, Len(ls) - Min(Len(items), Len(ls)))

\* idbDeleteIds_ls dropping one entry more than the batch holds.
idbDeleteIds_ls_OneMore(items) == SpliceHead(ls, Len(items) + 1)

idbDeleteIds_ls(items) == SpliceHead(ls, Len(items))

\* The rows the durable store holds, in both backends.
StoreRows == Rows(idb) \cup Range(ls)

(* --------------------- index.js: delivery engine ---------------------- *)

\* scheduleFlush that cancels the pending timer and sets a new one.
scheduleFlush_Reschedule(delayMs) ==
    IF DISCARD_DATA
    THEN UNCHANGED <<LOG_BACKOFF_TIMER, timers, ignored>>
    ELSE /\ LOG_BACKOFF_TIMER' = TRUE
         /\ timers' = <<delayMs>>
         /\ UNCHANGED ignored

\* scheduleFlush that also returns while a drain is in progress.
scheduleFlush_SkipWhileFlushing(delayMs) ==
    IF DISCARD_DATA \/ LOG_FLUSHING
    THEN UNCHANGED <<LOG_BACKOFF_TIMER, timers, ignored>>
    ELSE IF LOG_BACKOFF_TIMER
    THEN /\ UNCHANGED <<LOG_BACKOFF_TIMER, timers>>
         /\ ignored' = delayMs
    ELSE /\ Len(timers) < MaxTimers
         /\ LOG_BACKOFF_TIMER' = TRUE
         /\ timers' = Append(timers, delayMs)
         /\ UNCHANGED ignored

\* scheduleFlush without its discard check.
scheduleFlush_NoDiscard(delayMs) ==
    IF LOG_BACKOFF_TIMER
    THEN /\ UNCHANGED <<LOG_BACKOFF_TIMER, timers>>
         /\ ignored' = delayMs
    ELSE /\ Len(timers) < MaxTimers
         /\ LOG_BACKOFF_TIMER' = TRUE
         /\ timers' = Append(timers, delayMs)
         /\ UNCHANGED ignored

\* scheduleFlush(delayMs): no-op in discard mode or while LOG_BACKOFF_TIMER
\* holds a handle; otherwise one setTimeout whose handle it stores.
scheduleFlush(delayMs) ==
    IF DISCARD_DATA
    THEN UNCHANGED <<LOG_BACKOFF_TIMER, timers, ignored>>
    ELSE IF LOG_BACKOFF_TIMER
    THEN /\ UNCHANGED <<LOG_BACKOFF_TIMER, timers>>
         /\ ignored' = delayMs
    ELSE /\ Len(timers) < MaxTimers
         /\ LOG_BACKOFF_TIMER' = TRUE
         /\ timers' = Append(timers, delayMs)
         /\ UNCHANGED ignored

\* FlushGuard without the reentrancy flag.
FlushGuard_NoFlag == DISCARD_DATA

\* The guard on flushQueue's first line.
FlushGuard == LOG_FLUSHING \/ DISCARD_DATA

\* flushQueue() up to its first await: past the guard it sets LOG_FLUSHING
\* and issues idbReadBatch.  trigger is the delay of the timer that called it.
flushQueue(trigger) ==
    IF FlushGuard
    THEN UNCHANGED <<LOG_FLUSHING, drains, opq>>
    ELSE /\ FreeSlots # {}
         /\ LET s == CHOOSE x \in FreeSlots : \A y \in FreeSlots : x <= y
            IN  /\ drains' = [drains EXCEPT ![s] = [pc |-> "reading", batch |-> <<>>, trigger |-> trigger]]
                /\ opq' = Append(opq, Op("read", s, <<>>, <<>>))
         /\ LOG_FLUSHING' = TRUE

\* Backoff with the exponent one lower: 500 ms after the first failure.
Backoff_From500(n) == Min(30000, 500 * Pow2(n - 1))

\* Math.min(30000, 500 * Math.pow(2, LOG_RETRY_ATTEMPTS))
Backoff(n) == Min(30000, 500 * Pow2(n))

\* What fetch can give sendBatch: a response (status class, type) or an exception.
Responses == {"2xx", "302", "opaque", "opaqueredirect", "4xx", "5xx", "exception"}

\* sendBatch's okLike: res.ok, status 302, or an opaque / opaqueredirect type.
okLike(res) == res \in {"2xx", "302", "opaque", "opaqueredirect"}

\* The stamp taken before the previous increment: d._ts_seq = --window.LOG_SEQ.
StampSeq_Stale == IF LOG_SEQ <= 1 THEN 1 ELSE LOG_SEQ - 1

\* if (typeof window.LOG_SEQ !== 'number') window.LOG_SEQ = 1; the value
\* that d._ts_seq = window.LOG_SEQ++ stamps.
StampSeq == IF LOG_SEQ = 0 THEN 1 ELSE LOG_SEQ

\* logTrialRow without its discard check.
DiscardGuard_Missing == FALSE

\* logTrialRow's first line: return in discard mode.
DiscardGuard == DISCARD_DATA

\* logEnqueue(rows) up to its first await: mirror the rows, issue idbPutAll.
logEnqueue(rows) ==
    /\ LOG_BUFFER' = LOG_BUFFER \o rows
    /\ opq' = Append(opq, Op("put", 0, rows, <<>>))

\* clearLocalQueue that clears the store but leaves the mirror.
clearLocalQueue_KeepMirror ==
    /\ UNCHANGED LOG_BUFFER
    /\ opq' = Append(opq, Op("clear", 0, <<>>, <<>>))

\* clearLocalQueue() up to its await: empty the mirror, issue the store clear.
clearLocalQueue ==
    /\ LOG_BUFFER' = <<>>
    /\ opq' = Append(opq, Op("clear", 0, <<>>, <<>>))

\* Whether a settled keepalive fetch makes requestDeleteByParticipant reject:
\* the catch block swallows the exception, and a response is not looked at.
Propagates(res) == FALSE

\* requestDeleteByParticipant that falls back to fetch after the beacon.
requestDeleteByParticipant_Both(participantId) ==
    IF participantId = ""
    THEN del' = [del EXCEPT !.calls = @ + 1]
    ELSE del' = [del EXCEPT !.calls = @ + 1, !.ids = @ + 1,
                            !.sent = IF env.beacon THEN @ \o <<"beacon", "fetch">> ELSE Append(@, "fetch"),
                            !.inflight = @ + 1]

\* requestDeleteByParticipant(participantId) up to its await.  LOG_ENDPOINT is
\* a non-empty constant, so only an empty id returns early.  With sendBeacon
\* the directive is one beacon; without it one keepalive fetch, awaited.
requestDeleteByParticipant(participantId) ==
    IF participantId = ""
    THEN del' = [del EXCEPT !.calls = @ + 1]
    ELSE IF env.beacon
    THEN del' = [del EXCEPT !.calls = @ + 1, !.ids = @ + 1, !.sent = Append(@, "beacon")]
    ELSE del' = [del EXCEPT !.calls = @ + 1, !.ids = @ + 1, !.sent = Append(@, "fetch"),
                            !.inflight = @ + 1]

\* const maxBytes = 60000 in flushSyncBeacon.
maxBytes == 60000

\* The lengths a row's JSON can have once URI-encoded: rows of which two fit
\* under maxBytes, of which only one fits, and which do not fit alone.
RowBytes == {20000, 40000, 61000}

RECURSIVE SumBytes(_)
SumBytes(rows) == IF rows = <<>> THEN 0 ELSE bytes[Head(rows)] + SumBytes(Tail(rows))

\* blob.size for body = 'payload=' + encodeURIComponent(JSON.stringify({ rows })):
\* 'payload=' is 8 bytes, '{"rows":[' encodes to 19 bytes, each ',' between
\* two rows to 3 and ']}' to 6; the encoded text is ASCII.
BodySize(rows) == 8 + 19 + SumBytes(rows) + 3 * (Len(rows) - 1) + 6

\* The size test passing whatever the blob holds.
Fits_Always(rows) == TRUE

\* if (blob.size <= maxBytes) break;
Fits(rows) == BodySize(rows) <= maxBytes

\* buf.slice(sliceStart, end), with the 0-based bounds of the source.
Slice(buf, sliceStart, end) == SubSeq(buf, sliceStart + 1, end)

\* end = Math.max(sliceStart + 1, Math.floor((sliceStart + end) / 2)); sliceStart stays.
Shrink(sliceStart, end) == [sliceStart |-> sliceStart, end |-> Max(sliceStart + 1, (sliceStart + end) \div 2)]

\* flushSyncBeacon leaving its loop: if (navigator.sendBeacon && blob) the
\* blob built last is handed to sendBeacon.  blob = <<>> stands for null.
BeaconExit(blob) ==
    /\ fsb' = [fsb EXCEPT !.pc = "idle", !.blob = <<>>]
    /\ beacons' = IF env.beacon /\ blob # <<>>
                  THEN Append(beacons, [rows |-> blob, buf |-> LOG_BUFFER])
                  ELSE beacons

(* --------------------------- build.js --------------------------------- *)

\* A jsPsych trial object d is a function from the keys it has to their
\* values; typeof d.k !== 'undefined' is k \in DOMAIN d.  A row is a function
\* from the keys whose value is not null to their values: a key the row
\* literal sets to null is left out.  Booleans are BOOLEAN, _ts_seq is a
\* number, other scalars are strings.  A file reference is the sequence of
\* its segments between '/'.  A string built by concatenation or by
\* JSON.stringify is the sequence of its parts.
NoFields == [k \in {} |-> ""]

Has(d, k) == k \in DOMAIN d

\* crypto.randomUUID() at module load.
SESSION_ID == "session-1"

\* navigator.userAgent of this browser.
userAgent == "Mozilla/5.0"

\* baseName(s) for a non-empty string s: s.split('/').pop(), a reference of
\* one segment.  (For a missing or empty s it gives null; see Row.)
baseName(s) == <<s[Len(s)]>>

ALLOW_TYPES ==
    {"door_trial", "trust_probe_mid", "reputation_item", "reputation_probe",
     "questionnaire40pre", "questionnaire40post", "questionnaire14mid1",
     "questionnaire14mid2", "questionnaire", "demographics", "emergency_trial"}

IGNORE_TRIAL_TYPES ==
    {"training_intro", "overview_rescuer", "robot_description", "fade_transition", "transition"}

\* d.trial_type || ''
TrialType(d) == IF Has(d, "trial_type") THEN d.trial_type ELSE ""

\* mapEventType(d).  The records of the model carry no trust14_raw and no
\* responses, so the survey fallback is decided by trust40_raw.
mapEventType(d) ==
    IF Has(d, "event_type") /\ d.event_type # "" THEN d.event_type
    ELSE IF Has(d, "true_location") \/ TrialType(d) = "door" THEN "door_trial"
    ELSE IF TrialType(d) = "trust_probe" THEN "trust_probe_mid"
    ELSE IF TrialType(d) = "reviews_set" THEN "reputation_item"
    ELSE IF TrialType(d) = "reputation_probe" THEN "reputation_probe"
    ELSE IF TrialType(d) = "trust40_pre" THEN "questionnaire40pre"
    ELSE IF TrialType(d) = "trust40_post" THEN "questionnaire40post"
    ELSE IF TrialType(d) = "trust14_mid1" THEN "questionnaire14mid1"
    ELSE IF TrialType(d) = "trust14_mid2" THEN "questionnaire14mid2"
    ELSE IF Has(d, "trust40_raw") THEN "questionnaire"
    ELSE TrialType(d)

\* The filter that keeps every record whose trial_type is not ignored.
Dropped_AllowAny(d) ==
    \/ TrialType(d) \in IGNORE_TRIAL_TYPES
    \/ (Has(d, "is_demo") /\ d.is_demo = TRUE)
    \/ mapEventType(d) = "training_demo"
    \/ TrialType(d) = "training_demo"

\* The two early returns of the map callback: the record yields no row.
Dropped(d) ==
    \/ TrialType(d) \in IGNORE_TRIAL_TYPES
    \/ mapEventType(d) \notin ALLOW_TYPES
    \/ (Has(d, "is_demo") /\ d.is_demo = TRUE)
    \/ mapEventType(d) = "training_demo"
    \/ TrialType(d) = "training_demo"

\* JSON.stringify of a boolean.
JsonBool(b) == IF b THEN "true" ELSE "false"

\* followed compared against the other door.
Followed_Negated(d) == d.choice # d.suggestion

\* String(d.choice) === String(d.suggestion)
Followed(d) == d.choice = d.suggestion

\* unifiedResponse(d, et) for a door_trial: JSON.stringify({followed: f,
\* correct: c}).  An explicit boolean d.followed wins over the derived value.
DoorResponse(d) ==
    <<"{\"followed\":",
      IF Has(d, "followed") THEN JsonBool(d.followed)
      ELSE IF Has(d, "choice") /\ Has(d, "suggestion") THEN JsonBool(Followed(d))
      ELSE "null",
      ",\"correct\":",
      IF Has(d, "correct") THEN JsonBool(d.correct) ELSE "null",
      "}">>

\* The event types for which extractQuestionnaireFields is called: among the
\* allow-listed ones, those starting with 'questionnaire', and 'demographics'.
IsQuestionnaire(et) ==
    et \in {"questionnaire", "questionnaire40pre", "questionnaire40post",
            "questionnaire14mid1", "questionnaire14mid2", "demographics"}

\* extractQuestionnaireFields(d) throws when JSON.stringify meets answers it
\* cannot serialise (a circular structure, a BigInt); the model writes such a
\* trust40_raw as "circular".
Throws(d) ==
    /\ IsQuestionnaire(mapEventType(d))
    /\ ~(Has(d, "event_type") /\ d.event_type = "demographics")
    /\ Has(d, "trust40_raw")
    /\ d.trust40_raw = "circular"

\* SESSION_ID + ':' + d._ts_seq
RowId(d) == <<SESSION_ID, ":", d._ts_seq>>

\* Object.keys(row): the keys of the row literal and the two questionnaire keys.
RESERVED ==
    {"session_id", "participant_id", "set_id", "block_index", "trial_index",
     "event_type", "ts_client", "ts_seq", "row_id", "is_fullscreen",
     "device_type", "browser_name", "browser_major", "user_agent", "seed",
     "risk_key", "risk_value", "suggestion", "followed", "correct", "rt_ms",
     "probe_id", "response", "review_condition", "review_expected",
     "review_ids", "review_tones", "review_avatars", "victim_skin",
     "background_src", "door_src", "client_version", "trial_type",
     "true_location", "reaction_time_s", "slider_value",
     "emergency_choice_index", "ts", "qa_pairs_json", "questionnaire_score"}

\* The loop over Object.entries(d): every key of d that is not a key of the
\* row is copied as it is.
PassThrough(d) == [k \in DOMAIN d \ RESERVED |-> d[k]]

\* The row for a record that passed the filter, uaEmitted being
\* window.__UA_EMITTED__ at that point.  Of the row's keys the model keeps
\* those that depend on the keys its records carry; the others are null or
\* the same in every row.
Row(d, uaEmitted) ==
    ("session_id" :> (IF Has(d, "session_id") THEN d.session_id ELSE SESSION_ID))
    @@ ("event_type" :> mapEventType(d))
    @@ (IF Has(d, "_ts_seq") THEN "ts_seq" :> d._ts_seq ELSE NoFields)
    @@ (IF Has(d, "_ts_seq") THEN "row_id" :> RowId(d) ELSE NoFields)
    @@ (IF uaEmitted THEN NoFields ELSE "user_agent" :> userAgent)
    @@ (IF Has(d, "suggestion") THEN "suggestion" :> d.suggestion ELSE NoFields)
    @@ (IF Has(d, "choice") /\ Has(d, "suggestion") THEN "followed" :> Followed(d) ELSE NoFields)
    @@ (IF Has(d, "correct") THEN "correct" :> d.correct ELSE NoFields)
    @@ (IF mapEventType(d) = "door_trial" THEN "response" :> DoorResponse(d) ELSE NoFields)
    @@ (IF Has(d, "victim_src") /\ d.victim_src # <<>> THEN "victim_skin" :> baseName(d.victim_src) ELSE NoFields)
    @@ (IF Has(d, "background_src") /\ d.background_src # <<>> THEN "background_src" :> baseName(d.background_src) ELSE NoFields)
    @@ (IF Has(d, "door_src") /\ d.door_src # <<>> THEN "door_src" :> baseName(d.door_src) ELSE NoFields)
    @@ ("trial_type" :> (IF TrialType(d) # "" THEN TrialType(d)
                         ELSE IF Has(d, "true_location") THEN "door" ELSE ""))
    @@ (IF Has(d, "true_location") THEN "true_location" :> d.true_location ELSE NoFields)
    @@ PassThrough(d)

\* if (!window.__UA_EMITTED__ && uaField) window.__UA_EMITTED__ = true
UaAfter(uaEmitted) == uaEmitted \/ userAgent # ""

\* allTrials.map(...).filter(Boolean) from record i on, st being the rows
\* built so far and the flag: the rows, the flag and whether a record threw.
\* The flag is set (line 298) before the questionnaire payload is extracted
\* (line 303), so a record that throws there has set it.
RECURSIVE MapFrom(_, _, _)
MapFrom(ds, i, st) ==
    IF i > Len(ds) THEN st
    ELSE IF Dropped(ds[i]) THEN MapFrom(ds, i + 1, st)
    ELSE IF Throws(ds[i]) THEN [rows |-> <<>>, ua |-> UaAfter(st.ua), threw |-> TRUE]
    ELSE MapFrom(ds, i + 1, [rows |-> Append(st.rows, Row(ds[i], st.ua)),
                             ua |-> UaAfter(st.ua), threw |-> FALSE])

\* buildRowsForLogging(ds): its effect on the flag, and what the caller gets.
buildRowsForLogging(ds) ==
    LET out == MapFrom(ds, 1, [rows |-> <<>>, ua |-> UA_EMITTED, threw |-> FALSE])
    IN  /\ builds' = builds + 1
        /\ UA_EMITTED' = out.ua
        /\ allTrials' = ds
        /\ result' = out.rows
        /\ threw' = out.threw
        /\ uaLog' = uaLog \o [i \in 1..Len(out.rows) |-> Has(out.rows[i], "user_agent")]

(* ------------------------ records of the model ------------------------ *)

Opt(k, vals) == {NoFields} \cup {k :> v : v \in vals}

Door == "trial_type" :> "door"

TrialTypes ==
    {"door", "trust_probe", "reviews_set", "reputation_probe", "trust40_pre",
     "trust40_post", "trust14_mid1", "trust14_mid2", "questionnaire",
     "demographics", "emergency_trial", "fade_transition", "training_demo",
     "html-keyboard-response"}

\* Records that vary what the filter looks at: every trial type alone, an
\* explicit event_type, the demo flag, and true_location.
FilterRecords ==
    Opt("trial_type", TrialTypes)
    \cup {a @@ ("event_type" :> e) : a \in Opt("trial_type", {"door", "fade_transition", "html-keyboard-response"}),
                                     e \in {"door_trial", "note"}}
    \cup {a @@ ("is_demo" :> b) : a \in {Door, "event_type" :> "door_trial"}, b \in BOOLEAN}
    \cup {a @@ ("true_location" :> "left") : a \in Opt("trial_type", {"fade_transition", "html-keyboard-response"})}

\* Door trials that vary choice, suggestion and the explicit outcome fields.
DoorRecords ==
    {Door @@ a @@ b @@ c : a \in Opt("choice", {"left", "right"}),
                           b \in Opt("suggestion", {"left"}),
                           c \in Opt("followed", BOOLEAN)}
    \cup {Door @@ ("choice" :> "left") @@ ("suggestion" :> "left") @@ ("correct" :> b) : b \in BOOLEAN}

\* Door trials with and without their own session_id and sequence number.
IdRecords ==
    {Door @@ a @@ b : a \in Opt("session_id", {"session-0"}), b \in Opt("_ts_seq", {7})}

Paths == {<<"victim1.png">>, <<"assets", "img", "victim1.png">>}

\* Door trials with one asset reference, bare or with its directories, and
\* one with all three.
AssetRecords ==
    {Door @@ (k :> p) : k \in {"victim_src", "background_src", "door_src"}, p \in Paths}
    \cup {Door @@ ("victim_src" :> <<"assets", "img", "victim1.png">>)
                @@ ("background_src" :> <<"assets", "bg", "hall.png">>)
                @@ ("door_src" :> <<"assets", "door.png">>)}

\* Questionnaire screens with answers that can and cannot be serialised.
QuestionnaireRecords ==
    {a @@ b : a \in {"trial_type" :> "trust40_pre", "trial_type" :> "survey"},
              b \in Opt("trust40_raw", {"answers", "circular"})}
    \cup {("event_type" :> "demographics") @@ ("trust40_raw" :> "circular")}

Records == FilterRecords \cup DoorRecords \cup IdRecords \cup AssetRecords \cup QuestionnaireRecords

\* The records logTrialRow is called with.
TrialRecords ==
    {Door @@ ("choice" :> "right") @@ ("suggestion" :> "left"),
     Door @@ ("is_demo" :> TRUE),
     Door @@ ("session_id" :> "session-0") @@ ("_ts_seq" :> 7),
     Door @@ ("victim_src" :> <<"assets", "img", "victim1.png">>),
     "trial_type" :> "fade_transition",
     ("trial_type" :> "trust40_pre") @@ ("trust40_raw" :> "answers"),
     ("trial_type" :> "trust40_pre") @@ ("trust40_raw" :> "circular")}

\* The records a call with several records is made of.
BulkRecords ==
    {Door @@ ("choice" :> "left") @@ ("suggestion" :> "left"),
     "trial_type" :> "fade_transition",
     ("trial_type" :> "trust40_pre") @@ ("trust40_raw" :> "answers"),
     ("trial_type" :> "trust40_pre") @@ ("trust40_raw" :> "circular")}

RECURSIVE SeqsUpTo(_, _)
SeqsUpTo(S, n) ==
    IF n = 0 THEN {<<>>}
    ELSE SeqsUpTo(S, n - 1) \cup {Append(q, x) : q \in {p \in SeqsUpTo(S, n - 1) : Len(p) = n - 1}, x \in S}

\* The arguments of the buildRowsForLogging calls: every record alone, and
\* every sequence of up to MaxRecs of the bulk records.
Inputs == {<<d>> : d \in Records} \cup SeqsUpTo(BulkRecords, MaxRecs)

(* ------------------------------ actions ------------------------------- *)

\* build.js logTrialRow(d).  built is what buildRowsForLogging([d]) returns:
\* one row, or none when the record is filtered out.
logTrialRow(built) ==
    /\ calls < env.calls
    /\ ~finished
    /\ calls' = calls + 1
    /\ IF DiscardGuard
       THEN UNCHANGED <<LOG_SEQ, nrows, LOG_BUFFER, opq>>
       ELSE /\ LOG_SEQ' = StampSeq + 1
            /\ nrows' = nrows + (IF built THEN 1 ELSE 0)
            /\ logEnqueue(IF built THEN <<nrows + 1>> ELSE <<>>)
    /\ UNCHANGED <<auxVars, storeVars, envVars, LOG_RETRY_ATTEMPTS, LOG_FLUSHING,
                   LOG_BACKOFF_TIMER, timers, DISCARD_DATA, drains, finished,
                   histVars, ignored>>

\* logTrialRow without its try/catch: the exception leaves the function.
CatchBlock_Missing == UNCHANGED <<caught, nrows, LOG_BUFFER, opq>>

\* logTrialRow's catch block takes the exception and warns on the console;
\* logEnqueue was not reached.
CatchBlock ==
    /\ caught' = caught + 1
    /\ UNCHANGED <<nrows, LOG_BUFFER, opq>>

\* build.js logTrialRow(d) with the record in full: stamp d._ts_seq, build
\* the rows of [d], hand them to logEnqueue; an exception of either is caught.
logTrialRowRecord(d) ==
    /\ calls < env.calls
    /\ ~finished
    /\ calls' = calls + 1
    /\ IF DiscardGuard
       THEN UNCHANGED <<LOG_SEQ, nrows, LOG_BUFFER, opq, normVars, caught>>
       ELSE /\ LOG_SEQ' = StampSeq + 1
            /\ buildRowsForLogging(<<("_ts_seq" :> StampSeq) @@ d>>)
            /\ IF threw'
               THEN CatchBlock
               ELSE /\ nrows' = nrows + Len(result')
                    /\ logEnqueue(result')
                    /\ UNCHANGED caught
    /\ UNCHANGED <<apiVars, beaconVars, rejected, storeVars, envVars, LOG_RETRY_ATTEMPTS, LOG_FLUSHING,
                   LOG_BACKOFF_TIMER, timers, DISCARD_DATA, drains, finished,
                   histVars, ignored>>

\* buildRowsForLogging(ds) called for its result, as main.js on_finish does
\* with the session's trials.
BuildCall(ds) ==
    /\ builds < MaxBuilds
    /\ buildRowsForLogging(ds)
    /\ UNCHANGED <<apiVars, beaconVars, errVars, LOG_BUFFER, storeVars, envVars, LOG_RETRY_ATTEMPTS,
                   LOG_FLUSHING, LOG_BACKOFF_TIMER, timers, DISCARD_DATA, LOG_SEQ,
                   drains, opq, calls, finished, nrows, histVars, ignored>>

\* main.js on_finish: the final dataset is enqueued unless the participant withdrew.
OnFinish(k) ==
    /\ ~finished
    /\ finished' = TRUE
    /\ IF DISCARD_DATA
       THEN UNCHANGED <<nrows, LOG_BUFFER, opq>>
       ELSE /\ nrows' = nrows + k
            /\ logEnqueue([i \in 1..k |-> nrows + i])
    /\ UNCHANGED <<auxVars, storeVars, envVars, LOG_RETRY_ATTEMPTS, LOG_FLUSHING,
                   LOG_BACKOFF_TIMER, timers, DISCARD_DATA, LOG_SEQ, drains,
                   calls, histVars, ignored>>

\* main.js: 'online', 'visibilitychange' to hidden, and the keep-data exit
\* all call scheduleFlush(0).
WakeUp ==
    /\ scheduleFlush(0)
    /\ UNCHANGED <<auxVars, LOG_BUFFER, storeVars, envVars, LOG_RETRY_ATTEMPTS,
                   LOG_FLUSHING, DISCARD_DATA, LOG_SEQ, drains, opq, calls,
                   finished, nrows, histVars>>

\* The setTimeout callback of scheduleFlush: clear the handle, call flushQueue.
TimerFire(i) ==
    /\ i \in 1..Len(timers)
    /\ timers' = RemoveAt(timers, i)
    /\ LOG_BACKOFF_TIMER' = FALSE
    /\ ignored' = -1
    /\ flushQueue(timers[i])
    /\ UNCHANGED <<auxVars, LOG_BUFFER, storeVars, envVars, LOG_RETRY_ATTEMPTS,
                   DISCARD_DATA, LOG_SEQ, calls, finished, nrows, histVars>>

\* idbPutAll completes; logEnqueue resumes and calls scheduleFlush(250).
PutDone ==
    /\ opq # <<>>
    /\ Head(opq).kind = "put"
    /\ IF idbAvailable
       THEN /\ idb' = idbPutAll_idb(Head(opq).rows)
            /\ idbNextKey' = idbNextKey + Len(Head(opq).rows)
            /\ UNCHANGED ls
       ELSE /\ ls' = idbPutAll_ls(Head(opq).rows)
            /\ UNCHANGED <<idb, idbNextKey>>
    /\ opq' = Tail(opq)
    /\ scheduleFlush(250)
    /\ UNCHANGED <<auxVars, LOG_BUFFER, envVars, LOG_RETRY_ATTEMPTS, LOG_FLUSHING,
                   DISCARD_DATA, LOG_SEQ, drains, calls, finished, nrows, histVars>>

\* idbReadBatch completes; flushQueue resumes.  An empty batch ends the drain.
\* Otherwise sendBatch runs: in discard mode it returns true without a
\* request and the drain goes on to idbDeleteIds; else the POST is issued.
ReadDone ==
    /\ opq # <<>>
    /\ Head(opq).kind = "read"
    /\ LET s == Head(opq).slot
           batch == idbReadBatch(LOG_BATCH_SIZE)
       IN  IF batch = <<>>
           THEN /\ LOG_BUFFER' = <<>>
                /\ LOG_RETRY_ATTEMPTS' = 0
                /\ backoffMs' = 0
                /\ drains' = [drains EXCEPT ![s] = IdleDrain]
                /\ LOG_FLUSHING' = FALSE
                /\ opq' = Tail(opq)
                /\ UNCHANGED everSent
           ELSE IF DISCARD_DATA
           THEN /\ drains' = [drains EXCEPT ![s].pc = "deleting", ![s].batch = batch]
                /\ opq' = Append(Tail(opq), Op("del", s, <<>>, batch))
                /\ UNCHANGED <<LOG_BUFFER, LOG_RETRY_ATTEMPTS, backoffMs, LOG_FLUSHING, everSent>>
           ELSE /\ drains' = [drains EXCEPT ![s].pc = "sending", ![s].batch = batch]
                /\ everSent' = everSent \cup Rows(batch)
                /\ opq' = Tail(opq)
                /\ UNCHANGED <<LOG_BUFFER, LOG_RETRY_ATTEMPTS, backoffMs, LOG_FLUSHING>>
    /\ UNCHANGED <<auxVars, storeVars, envVars, LOG_BACKOFF_TIMER, timers, DISCARD_DATA,
                   LOG_SEQ, calls, finished, nrows, acked, clearedAt, ignored>>

\* fetch settles; sendBatch returns okLike; flushQueue resumes.  On success
\* it issues idbDeleteIds; on failure it counts the attempt, schedules the
\* backoff flush and leaves through finally.
NetResponse(s, res) ==
    /\ drains[s].pc = "sending"
    /\ IF okLike(res)
       THEN /\ acked' = acked \cup Rows(drains[s].batch)
            /\ drains' = [drains EXCEPT ![s].pc = "deleting"]
            /\ opq' = Append(opq, Op("del", s, <<>>, drains[s].batch))
            /\ UNCHANGED <<LOG_RETRY_ATTEMPTS, backoffMs, LOG_FLUSHING,
                           LOG_BACKOFF_TIMER, timers, ignored>>
       ELSE /\ LOG_RETRY_ATTEMPTS < env.retry
            /\ LOG_RETRY_ATTEMPTS' = LOG_RETRY_ATTEMPTS + 1
            /\ backoffMs' = Backoff(LOG_RETRY_ATTEMPTS')
            /\ scheduleFlush(backoffMs')
            /\ drains' = [drains EXCEPT ![s] = IdleDrain]
            /\ LOG_FLUSHING' = FALSE
            /\ UNCHANGED <<opq, acked>>
    /\ UNCHANGED <<auxVars, LOG_BUFFER, storeVars, envVars, DISCARD_DATA, LOG_SEQ,
                   calls, finished, nrows, everSent, clearedAt>>

\* idbDeleteIds completes; flushQueue trims the mirror, resets the counter
\* and continues the loop with the next idbReadBatch.
DeleteDone ==
    /\ opq # <<>>
    /\ Head(opq).kind = "del"
    /\ IF idbAvailable
       THEN /\ idb' = idbDeleteIds_idb(Head(opq).batch)
            /\ UNCHANGED <<ls, idbNextKey>>
       ELSE /\ ls' = idbDeleteIds_ls(Head(opq).batch)
            /\ UNCHANGED <<idb, idbNextKey>>
    /\ LOG_BUFFER' = SpliceHead(LOG_BUFFER, Len(Head(opq).batch))
    /\ LOG_RETRY_ATTEMPTS' = 0
    /\ backoffMs' = 0
    /\ drains' = [drains EXCEPT ![Head(opq).slot].pc = "reading", ![Head(opq).slot].batch = <<>>]
    /\ opq' = Append(Tail(opq), Op("read", Head(opq).slot, <<>>, <<>>))
    /\ UNCHANGED <<auxVars, envVars, LOG_FLUSHING, LOG_BACKOFF_TIMER, timers,
                   DISCARD_DATA, LOG_SEQ, calls, finished, nrows, everSent,
                   acked, clearedAt, ignored>>

\* main.js btnDiscard.onclick up to its first await: set discard mode, then
\* clearLocalQueue empties the mirror and issues the store clear.
DiscardClick ==
    /\ ~DISCARD_DATA
    /\ ~finished
    /\ DISCARD_DATA' = TRUE
    /\ clearLocalQueue
    /\ UNCHANGED <<auxVars, storeVars, envVars, LOG_RETRY_ATTEMPTS, LOG_FLUSHING,
                   LOG_BACKOFF_TIMER, timers, LOG_SEQ, drains, calls, finished,
                   nrows, histVars, ignored>>

\* clearLocalQueue's store.clear() / localStorage.removeItem completes;
\* btnDiscard.onclick resumes and calls requestDeleteByParticipant(window.PID).
ClearDone ==
    /\ opq # <<>>
    /\ Head(opq).kind = "clear"
    /\ IF idbAvailable
       THEN idb' = <<>> /\ UNCHANGED <<ls, idbNextKey>>
       ELSE ls' = <<>> /\ UNCHANGED <<idb, idbNextKey>>
    /\ clearedAt' = calls
    /\ opq' = Tail(opq)
    /\ requestDeleteByParticipant("PID")
    /\ UNCHANGED <<normVars, direct, beaconVars, errVars, LOG_BUFFER, envVars, LOG_RETRY_ATTEMPTS, LOG_FLUSHING,
                   LOG_BACKOFF_TIMER, timers, DISCARD_DATA, LOG_SEQ, drains,
                   calls, finished, nrows, everSent, acked, backoffMs, ignored>>

\* The page calls the exported logEnqueue(rows) itself, with k new rows.
logEnqueueCall(k) ==
    /\ direct < MaxDirect
    /\ direct' = direct + 1
    /\ nrows' = nrows + k
    /\ logEnqueue([i \in 1..k |-> nrows + i])
    /\ UNCHANGED <<normVars, del, beaconVars, errVars, storeVars, envVars, LOG_RETRY_ATTEMPTS, LOG_FLUSHING,
                   LOG_BACKOFF_TIMER, timers, DISCARD_DATA, LOG_SEQ, drains,
                   calls, finished, histVars, ignored>>

\* The page calls the exported requestDeleteByParticipant(participantId) itself.
DeleteCall(participantId) ==
    /\ del.calls < MaxDeletes
    /\ requestDeleteByParticipant(participantId)
    /\ UNCHANGED <<normVars, direct, beaconVars, errVars, LOG_BUFFER, storeVars, envVars, LOG_RETRY_ATTEMPTS,
                   LOG_FLUSHING, LOG_BACKOFF_TIMER, timers, DISCARD_DATA, LOG_SEQ,
                   drains, opq, calls, finished, nrows, histVars, ignored>>

\* The keepalive fetch of requestDeleteByParticipant settles: a response of
\* any status, or an exception when the network fails.  The function returns.
DeleteFetchSettled(res) ==
    /\ del.inflight > 0
    /\ del' = [del EXCEPT !.inflight = @ - 1,
                          !.failed = @ + (IF res = "exception" THEN 1 ELSE 0),
                          !.raised = @ \/ Propagates(res)]
    /\ UNCHANGED <<normVars, direct, beaconVars, errVars, LOG_BUFFER, storeVars, envVars, LOG_RETRY_ATTEMPTS,
                   LOG_FLUSHING, LOG_BACKOFF_TIMER, timers, DISCARD_DATA, LOG_SEQ,
                   drains, opq, calls, finished, nrows, histVars, ignored>>

\* The page enqueues one row whose JSON takes b bytes once URI-encoded.
logEnqueueSized(b) ==
    /\ fsb.pc = "idle"
    /\ nrows < MaxBeaconRows
    /\ nrows' = nrows + 1
    /\ bytes' = Append(bytes, b)
    /\ logEnqueue(<<nrows + 1>>)
    /\ UNCHANGED <<normVars, apiVars, fsb, beacons, errVars, storeVars, envVars,
                   LOG_RETRY_ATTEMPTS, LOG_FLUSHING, LOG_BACKOFF_TIMER, timers,
                   DISCARD_DATA, LOG_SEQ, drains, calls, finished, histVars, ignored>>

\* main.js 'pagehide' handler: flushSyncBeacon() up to its while loop.  With
\* no mirror or an empty one it returns at once.
PageHide ==
    /\ fsb.pc = "idle"
    /\ fsb.calls < MaxHides
    /\ IF LOG_BUFFER = <<>>
       THEN fsb' = [fsb EXCEPT !.calls = @ + 1]
       ELSE fsb' = [pc |-> "loop", sliceStart |-> Max(0, Len(LOG_BUFFER) - LOG_BATCH_SIZE),
                    end |-> Len(LOG_BUFFER), blob |-> <<>>, calls |-> fsb.calls + 1]
    /\ UNCHANGED <<normVars, apiVars, bytes, beacons, errVars, LOG_BUFFER, storeVars, envVars,
                   LOG_RETRY_ATTEMPTS, LOG_FLUSHING, LOG_BACKOFF_TIMER, timers,
                   DISCARD_DATA, LOG_SEQ, drains, opq, calls, finished, nrows,
                   histVars, ignored>>

\* One pass of flushSyncBeacon's while (end > sliceStart): build the blob of
\* buf.slice(sliceStart, end); leave the loop when it fits, else shrink.  The
\* function is synchronous: nothing else runs until it has left the loop.
BeaconLoop ==
    /\ fsb.pc = "loop"
    /\ IF fsb.end > fsb.sliceStart
       THEN LET rows == Slice(LOG_BUFFER, fsb.sliceStart, fsb.end)
                next == Shrink(fsb.sliceStart, fsb.end)
            IN  IF Fits(rows)
                THEN BeaconExit(rows)
                ELSE /\ fsb' = [fsb EXCEPT !.sliceStart = next.sliceStart, !.end = next.end, !.blob = rows]
                     /\ UNCHANGED beacons
       ELSE BeaconExit(fsb.blob)
    /\ UNCHANGED <<normVars, apiVars, bytes, errVars, LOG_BUFFER, storeVars, envVars,
                   LOG_RETRY_ATTEMPTS, LOG_FLUSHING, LOG_BACKOFF_TIMER, timers,
                   DISCARD_DATA, LOG_SEQ, drains, opq, calls, finished, nrows,
                   histVars, ignored>>

\* idbPutAll fails (quota exceeded, blocked access).  In IndexedDB the
\* transaction's onerror resolves the promise: nothing is stored, logEnqueue
\* resumes and calls scheduleFlush(250).  In the fallback
\* localStorage.setItem throws inside idbPutAll, which has no try/catch: its
\* promise rejects, and so does logEnqueue's, before scheduleFlush.
PutFail ==
    /\ opq # <<>>
    /\ Head(opq).kind = "put"
    /\ opq' = Tail(opq)
    /\ IF idbAvailable
       THEN /\ scheduleFlush(250)
            /\ UNCHANGED rejected
       ELSE /\ rejected' = rejected + 1
            /\ UNCHANGED <<LOG_BACKOFF_TIMER, timers, ignored>>
    /\ UNCHANGED <<normVars, apiVars, beaconVars, caught, LOG_BUFFER, storeVars, envVars,
                   LOG_RETRY_ATTEMPTS, LOG_FLUSHING, DISCARD_DATA, LOG_SEQ, drains,
                   calls, finished, nrows, histVars>>

\* idbReadBatch fails.  In IndexedDB the cursor request's onerror resolves
\* with []: flushQueue takes the queue for drained.  In the fallback
\* localStorage.getItem or JSON.parse throws: flushQueue is left through
\* finally with the exception.
ReadFail ==
    /\ opq # <<>>
    /\ Head(opq).kind = "read"
    /\ opq' = Tail(opq)
    /\ drains' = [drains EXCEPT ![Head(opq).slot] = IdleDrain]
    /\ LOG_FLUSHING' = FALSE
    /\ IF idbAvailable
       THEN /\ LOG_BUFFER' = <<>>
            /\ LOG_RETRY_ATTEMPTS' = 0
            /\ backoffMs' = 0
       ELSE UNCHANGED <<LOG_BUFFER, LOG_RETRY_ATTEMPTS, backoffMs>>
    /\ UNCHANGED <<auxVars, storeVars, envVars, LOG_BACKOFF_TIMER, timers, DISCARD_DATA,
                   LOG_SEQ, calls, finished, nrows, everSent, acked, clearedAt, ignored>>

\* idbDeleteIds fails.  In IndexedDB the transaction's onerror resolves:
\* nothing is deleted and flushQueue goes on as after a delete, trimming the
\* mirror and reading again.  In the fallback localStorage.setItem throws:
\* flushQueue is left through finally with the exception.
DeleteFail ==
    /\ opq # <<>>
    /\ Head(opq).kind = "del"
    /\ IF idbAvailable
       THEN /\ LOG_BUFFER' = SpliceHead(LOG_BUFFER, Len(Head(opq).batch))
            /\ LOG_RETRY_ATTEMPTS' = 0
            /\ backoffMs' = 0
            /\ drains' = [drains EXCEPT ![Head(opq).slot].pc = "reading", ![Head(opq).slot].batch = <<>>]
            /\ opq' = Append(Tail(opq), Op("read", Head(opq).slot, <<>>, <<>>))
            /\ UNCHANGED LOG_FLUSHING
       ELSE /\ drains' = [drains EXCEPT ![Head(opq).slot] = IdleDrain]
            /\ LOG_FLUSHING' = FALSE
            /\ opq' = Tail(opq)
            /\ UNCHANGED <<LOG_BUFFER, LOG_RETRY_ATTEMPTS, backoffMs>>
    /\ UNCHANGED <<auxVars, storeVars, envVars, LOG_BACKOFF_TIMER, timers, DISCARD_DATA,
                   LOG_SEQ, calls, finished, nrows, everSent, acked, clearedAt, ignored>>

\* idbOpen() is called anew by every store operation.  indexedDB.open starts
\* failing (onerror resolves null) or succeeds again: the operations that
\* complete from now on take the other branch.
ProbeFlip ==
    /\ idbAvailable' = ~idbAvailable
    /\ UNCHANGED <<auxVars, LOG_BUFFER, storeVars, env, LOG_RETRY_ATTEMPTS, LOG_FLUSHING,
                   LOG_BACKOFF_TIMER, timers, DISCARD_DATA, LOG_SEQ, drains, opq,
                   calls, finished, nrows, histVars, ignored>>

(* --------------------------- specification ---------------------------- *)

\* The page after bootstrap: nothing queued, no timer, no drain.
PageLoaded ==
    /\ LOG_BUFFER = <<>>
    /\ idb = <<>>
    /\ idbNextKey = 1
    /\ ls = <<>>
    /\ idbAvailable \in BOOLEAN
    /\ LOG_RETRY_ATTEMPTS = 0
    /\ LOG_FLUSHING = FALSE
    /\ LOG_BACKOFF_TIMER = FALSE
    /\ timers = <<>>
    /\ DISCARD_DATA = FALSE
    /\ LOG_SEQ = 0
    /\ drains = [s \in DrainSlots |-> IdleDrain]
    /\ opq = <<>>
    /\ calls = 0
    /\ finished = FALSE
    /\ nrows = 0
    /\ everSent = {}
    /\ acked = {}
    /\ clearedAt = -1
    /\ backoffMs = 0
    /\ ignored = -1
    /\ UA_EMITTED = FALSE
    /\ allTrials = <<>>
    /\ result = <<>>
    /\ threw = FALSE
    /\ builds = 0
    /\ uaLog = <<>>
    /\ direct = 0
    /\ del = [calls |-> 0, ids |-> 0, sent |-> <<>>, inflight |-> 0, failed |-> 0, raised |-> FALSE]
    /\ bytes = <<>>
    /\ fsb = [pc |-> "idle", sliceStart |-> 0, end |-> 0, blob |-> <<>>, calls |-> 0]
    /\ beacons = <<>>
    /\ rejected = 0
    /\ caught = 0

Init ==
    /\ PageLoaded
    /\ env = [calls |-> MaxCalls, bulk |-> MaxBulk, retry |-> MaxRetry, beacon |-> TRUE]

FairInit ==
    /\ PageLoaded
    /\ env = [calls |-> LiveCalls, bulk |-> LiveBulk, retry |-> LiveRetry, beacon |-> TRUE]

ApiInit ==
    /\ PageLoaded
    /\ env = [calls |-> ApiCalls, bulk |-> ApiBulk, retry |-> ApiRetry, beacon |-> TRUE]

\* A browser with or without navigator.sendBeacon.
DelInit ==
    /\ PageLoaded
    /\ \E b \in BOOLEAN : env = [calls |-> DelCalls, bulk |-> DelBulk, retry |-> DelRetry, beacon |-> b]

Next ==
    \/ \E built \in BOOLEAN : logTrialRow(built)
    \/ \E k \in 0..env.bulk : OnFinish(k)
    \/ WakeUp
    \/ \E i \in 1..MaxTimers : TimerFire(i)
    \/ PutDone
    \/ ReadDone
    \/ \E s \in DrainSlots, res \in Responses : NetResponse(s, res)
    \/ DeleteDone
    \/ DiscardClick
    \/ ClearDone

Spec == Init /\ [][Next]_vars

\* The event loop runs every task that is ready: a timer that is due fires,
\* an issued storage operation completes, a request in flight settles.
\* NetResponse can fail only while LOG_RETRY_ATTEMPTS < env.retry, so the
\* network acknowledges after at most env.retry consecutive failures.
Fairness ==
    /\ WF_vars(\E i \in 1..MaxTimers : TimerFire(i))
    /\ WF_vars(PutDone)
    /\ WF_vars(ReadDone)
    /\ WF_vars(DeleteDone)
    /\ WF_vars(ClearDone)
    /\ WF_vars(\E s \in DrainSlots, res \in Responses : NetResponse(s, res))

FairSpec == FairInit /\ [][Next]_vars /\ Fairness

\* The page with logEnqueue also called from outside the trial layer.
ApiNext ==
    \/ Next
    \/ \E k \in 1..MaxDirectRows : logEnqueueCall(k)

ApiSpec == ApiInit /\ [][ApiNext]_vars

\* The page with requestDeleteByParticipant also called outside withdrawal,
\* with and without a participant id.
DelNext ==
    \/ Next
    \/ \E id \in {"", "PID"} : DeleteCall(id)
    \/ \E res \in Responses : DeleteFetchSettled(res)

DelSpec == DelInit /\ [][DelNext]_vars

NormInit ==
    /\ PageLoaded
    /\ env = [calls |-> 0, bulk |-> 0, retry |-> 0, beacon |-> TRUE]

\* buildRowsForLogging called on its own, as main.js on_finish does.
NormNext == \E ds \in Inputs : BuildCall(ds)

NormSpec == NormInit /\ [][NormNext]_vars

TrialInit ==
    /\ PageLoaded
    /\ env = [calls |-> TrialCalls, bulk |-> 0, retry |-> 0, beacon |-> TRUE]

\* The trial layer logging records in full, the store taking the rows, and
\* withdrawal; rows stay queued (no flush timer fires).
TrialNext ==
    \/ \E d \in TrialRecords : logTrialRowRecord(d)
    \/ PutDone
    \/ DiscardClick
    \/ ClearDone

TrialSpec == TrialInit /\ [][TrialNext]_vars

\* A browser with or without navigator.sendBeacon.
BeaconInit ==
    /\ PageLoaded
    /\ \E b \in BOOLEAN : env = [calls |-> 0, bulk |-> 0, retry |-> 0, beacon |-> b]

\* Rows of several sizes are enqueued and persisted, and the page is hidden;
\* while flushSyncBeacon is in its loop no other task runs.
BeaconNext ==
    \/ \E b \in RowBytes : logEnqueueSized(b)
    \/ (fsb.pc = "idle" /\ PutDone)
    \/ PageHide
    \/ BeaconLoop

BeaconSpec == BeaconInit /\ [][BeaconNext]_vars

FaultInit ==
    /\ PageLoaded
    /\ env = [calls |-> FaultCalls, bulk |-> 0, retry |-> FaultRetry, beacon |-> TRUE]

\* The page logging trials while any storage operation can fail.
FaultNext ==
    \/ \E built \in BOOLEAN : logTrialRow(built)
    \/ WakeUp
    \/ \E i \in 1..MaxTimers : TimerFire(i)
    \/ PutDone
    \/ ReadDone
    \/ \E s \in DrainSlots, res \in Responses : NetResponse(s, res)
    \/ DeleteDone
    \/ PutFail
    \/ ReadFail
    \/ DeleteFail

FaultSpec == FaultInit /\ [][FaultNext]_vars

ProbeInit ==
    /\ PageLoaded
    /\ env = [calls |-> ProbeCalls, bulk |-> 0, retry |-> ProbeRetry, beacon |-> TRUE]

\* The page with the outcome of idbOpen changing between store operations.
ProbeNext ==
    \/ \E built \in BOOLEAN : logTrialRow(built)
    \/ WakeUp
    \/ \E i \in 1..MaxTimers : TimerFire(i)
    \/ PutDone
    \/ ReadDone
    \/ \E s \in DrainSlots, res \in Responses : NetResponse(s, res)
    \/ DeleteDone
    \/ DiscardClick
    \/ ClearDone
    \/ ProbeFlip

ProbeSpec == ProbeInit /\ [][ProbeNext]_vars

(* ------------------------------ claims -------------------------------- *)

Sending == {s \in DrainSlots : drains[s].pc = "sending"}

\* C1: single-flight drain.  In every reachable state at most one flushQueue
\* activation is past the guard and at most one batch POST is in flight.
C1_SingleFlight ==
    /\ Cardinality(ActiveDrains) <= 1
    /\ Cardinality(Sending) <= 1

\* A POST is in flight for a batch that was not full, a row persisted after
\* that batch was read is in the store, and the 250 ms timer its enqueue set
\* is gone: that timer fired during the drain and flushQueue turned it away.
C1_Witness ==
    /\ ~DISCARD_DATA
    /\ timers = <<>>
    /\ \E s \in Sending :
          /\ Len(drains[s].batch) < LOG_BATCH_SIZE
          /\ StoreRows \ Rows(drains[s].batch) # {}

\* C2: send-then-delete.  A row leaves the durable store only in
\* clearLocalQueue's clear, or after a batch that carried it was acknowledged.
C2_SendThenDelete ==
    [][(StoreRows \ StoreRows' # {})
         => \/ (StoreRows \ StoreRows') \subseteq acked
            \/ (opq # <<>> /\ Head(opq).kind = "clear")]_vars

\* The drain has deleted an acknowledged row while newer rows stay queued.
C2_Witness ==
    /\ ~DISCARD_DATA
    /\ \E r \in acked : r \notin StoreRows
    /\ StoreRows # {}

\* The rows a FairSpec run can enqueue.
AllRows == 1..(LiveCalls + LiveBulk)

RowSeq(batch) == [i \in 1..Len(batch) |-> batch[i].row]

\* The queue holds one batch: the only enqueue so far is on_finish's bulk
\* logEnqueue of n <= LOG_BATCH_SIZE rows, numbered 1..n.
OneBatch == finished /\ calls = 0 /\ nrows \in 1..LOG_BATCH_SIZE

\* C4: no loss on send failure.  For a queue holding one batch of n rows,
\* every send attempt carries exactly rows 1..n; once the send is
\* acknowledged no other POST carries them and the completed delete leaves
\* the store empty; a row acknowledged and deleted never returns to the
\* store; and under FairSpec the batch is eventually acknowledged and deleted.
C4_NoLossOnFailure ==
    /\ [](OneBatch =>
            /\ \A s \in Sending : RowSeq(drains[s].batch) = [i \in 1..nrows |-> i]
            /\ acked # {} => (acked = 1..nrows /\ Sending = {})
            /\ (acked # {} /\ \A s \in DrainSlots : drains[s].pc # "deleting") => StoreRows = {})
    /\ [][\A r \in acked : r \notin StoreRows => r \notin StoreRows']_vars
    /\ OneBatch ~> (acked = 1..nrows /\ StoreRows = {})

\* A full batch failed three times, the drain the 4000 ms backoff timer
\* started sent it again, it was acknowledged and all its rows are deleted.
C4_Witness ==
    /\ OneBatch
    /\ nrows = LOG_BATCH_SIZE
    /\ acked = 1..nrows
    /\ StoreRows = {}
    /\ \E s \in DrainSlots : drains[s].trigger = Backoff(3) /\ drains[s].pc = "reading"

\* C5: FIFO delivery.  Every batch POSTed lists its rows in enqueue order,
\* and every row enqueued before a row of that batch has been carried by
\* this batch or by an earlier one.
C5_Fifo ==
    \A s \in Sending :
        /\ \A i, j \in 1..Len(drains[s].batch) :
              i < j => drains[s].batch[i].row < drains[s].batch[j].row
        /\ \A r \in Rows(drains[s].batch) : \A q \in 1..r : q \in everSent

\* The first batch [1..LOG_BATCH_SIZE] was acknowledged and the POST in
\* flight starts at the next row.
C5_Witness ==
    /\ acked = 1..LOG_BATCH_SIZE
    /\ \E s \in Sending :
          /\ drains[s].batch[1].row = LOG_BATCH_SIZE + 1
          /\ Len(drains[s].batch) >= 2

\* The delays 500 * 2^n capped at 30000, written out.
ExpectedDelay(n) ==
    IF n >= 6 THEN 30000 ELSE <<1000, 2000, 4000, 8000, 16000>>[n]

C7_DocumentedBackoff ==
    LOG_RETRY_ATTEMPTS > 0 =>
        backoffMs = Min(30000, 500 * Pow2(LOG_RETRY_ATTEMPTS - 1))

\* C8: first-scheduled-wins.  At most one flush timer is pending, and a
\* pending timer is only ever left as it is or fired: no step replaces it,
\* changes its delay or adds a second one.
C8_FirstScheduledWins ==
    /\ [](Len(timers) <= 1)
    /\ [](LOG_BACKOFF_TIMER <=> timers # <<>>)
    /\ [][timers # <<>> => (timers' = timers \/ timers' = <<>>)]_vars

\* A wake-up's scheduleFlush(0) was ignored while the 1000 ms backoff timer
\* is pending.
C8_Witness ==
    /\ timers = <<Backoff(1)>>
    /\ ignored = 0

\* C9: backoff respected.  While the last send has failed
\* (LOG_RETRY_ATTEMPTS > 0) a POST is made only by a drain that the timer
\* carrying the backoff delay started.
C9_BackoffRespected ==
    \A s \in Sending :
        LOG_RETRY_ATTEMPTS > 0 => drains[s].trigger = Backoff(LOG_RETRY_ATTEMPTS)

\* C10: withdrawal halts logging.  A logTrialRow call made once discard mode
\* is set and clearLocalQueue has run changes nothing but the count of calls:
\* not the mirror, the store, LOG_SEQ, the timer, the storage operations
\* issued, nor any drain or POST.
C10_WithdrawalHaltsLogging ==
    [][(calls' = calls + 1 /\ DISCARD_DATA /\ clearedAt >= 0)
         => UNCHANGED <<LOG_BUFFER, idb, idbNextKey, ls, LOG_SEQ, LOG_BACKOFF_TIMER,
                        timers, opq, drains, everSent, nrows>>]_vars

\* logTrialRow was called after the clear completed; mirror and store are empty.
C10_Witness ==
    /\ DISCARD_DATA
    /\ clearedAt >= 0
    /\ calls > clearedAt
    /\ LOG_BUFFER = <<>>
    /\ StoreRows = {}

\* C11: enqueue is a no-op in discard mode.  A logEnqueue(rows) call made
\* while the discard flag is set leaves the mirror unchanged and issues no
\* write to the persistent queue.
C11_EnqueueNoOpInDiscard ==
    [][(direct' = direct + 1 /\ DISCARD_DATA)
         => (LOG_BUFFER' = LOG_BUFFER /\ opq' = opq)]_vars

\* C12: no batch is sent after withdrawal.  From a state in which the discard
\* flag is set, no step starts a batch POST, no step sets a flush timer, and
\* a step in which a pending timer fires issues no store read, starts no
\* drain and sends nothing.
C12_NoSendAfterWithdrawal ==
    [][DISCARD_DATA =>
         /\ Sending' \subseteq Sending
         /\ everSent' = everSent
         /\ Len(timers') <= Len(timers)
         /\ (LOG_BACKOFF_TIMER' => LOG_BACKOFF_TIMER)
         /\ (Len(timers') < Len(timers) => UNCHANGED <<opq, drains, LOG_FLUSHING>>)]_vars

\* In discard mode a drain that was in progress has read a batch and gone
\* on to delete it without a POST, and no flush timer is pending.
C12_Witness ==
    /\ DISCARD_DATA
    /\ timers = <<>>
    /\ \E s \in DrainSlots :
          /\ drains[s].pc = "deleting"
          /\ ~(Rows(drains[s].batch) \subseteq everSent)

\* C13: withdrawal leaves nothing behind.  In every state in which the
\* discard flag is set and clearLocalQueue's store clear has completed, the
\* mirror and the persistent queue are empty, whatever enqueue or drain was
\* in flight when the participant withdrew.
C13_NothingLeftBehind ==
    (DISCARD_DATA /\ clearedAt >= 0) => (LOG_BUFFER = <<>> /\ StoreRows = {})

\* The clear has completed while a POST that began before the withdrawal is
\* still in flight, and a row that no POST ever carried is gone as well.
C13_Witness ==
    /\ DISCARD_DATA
    /\ clearedAt >= 0
    /\ Sending # {}
    /\ \E r \in 1..nrows : r \notin everSent
    /\ LOG_BUFFER = <<>>
    /\ StoreRows = {}

\* C14: the deletion directive is best-effort and retry-free.  The directives
\* issued are one per requestDeleteByParticipant call with a non-empty id and
\* none for a call with an empty id, also after a fetch has failed; each goes
\* by sendBeacon when the browser has it and by one keepalive fetch
\* otherwise; no call raises; and a call, or the settling of its fetch,
\* changes nothing of the local queue.
C14_DeletionDirective ==
    /\ [](Len(del.sent) = del.ids)
    /\ [](\A i \in 1..Len(del.sent) : del.sent[i] = IF env.beacon THEN "beacon" ELSE "fetch")
    /\ [](~del.raised)
    /\ [][(del' # del /\ clearedAt' = clearedAt)
            => UNCHANGED <<LOG_BUFFER, storeVars, opq, timers, LOG_BACKOFF_TIMER,
                           LOG_RETRY_ATTEMPTS, LOG_FLUSHING, drains, DISCARD_DATA>>]_vars

\* Three calls outside withdrawal, one of them with an empty id; both
\* keepalive fetches failed; two directives were issued in all, and the rows
\* queued are still in the store.
C14_Witness ==
    /\ ~DISCARD_DATA
    /\ del.calls = 3
    /\ del.ids = 2
    /\ del.failed = 2
    /\ del.inflight = 0
    /\ del.sent = <<"fetch", "fetch">>
    /\ StoreRows # {}

\* The records the claim excludes: resolved event_type outside the
\* allow-list, trial_type in the ignore-set, or flagged is_demo.
Excluded(d) ==
    \/ mapEventType(d) \notin ALLOW_TYPES
    \/ TrialType(d) \in IGNORE_TRIAL_TYPES
    \/ (Has(d, "is_demo") /\ d.is_demo = TRUE)

\* C15: allow-list invariant.  Every row buildRowsForLogging returns has an
\* event_type, and it is one of the 11 allow-listed types; the call returns
\* no more rows than its argument has records that are not excluded, so an
\* excluded record alone yields no row.
C15_AllowList ==
    /\ Cardinality(ALLOW_TYPES) = 11
    /\ \A i \in 1..Len(result) :
          Has(result[i], "event_type") /\ result[i].event_type \in ALLOW_TYPES
    /\ Len(result) <= Len(SelectSeq(allTrials, LAMBDA d : ~Excluded(d)))

\* A call with a fade_transition screen and a door trial returned one row,
\* the door trial's.
C15_Witness ==
    /\ Len(allTrials) = 2
    /\ TrialType(allTrials[1]) = "fade_transition"
    /\ ~Has(allTrials[1], "event_type")
    /\ Len(result) = 1
    /\ result[1].event_type = "door_trial"

\* C16: user agent once per session.  Of the rows returned over the
\* session's buildRowsForLogging calls, the first carries the raw user-agent
\* string and no other does.
C16_UaOnce ==
    uaLog # <<>> => (uaLog[1] /\ \A i \in 2..Len(uaLog) : ~uaLog[i])

\* C17: derived followed.  For a door_trial record with choice and
\* suggestion and no explicit followed, the unified response encodes
\* followed as true when choice equals suggestion and as false otherwise,
\* and the row's followed field has that value.
C17_DerivedFollowed ==
    (Len(allTrials) = 1 /\ Len(result) = 1) =>
        LET d == allTrials[1]
            r == result[1]
        IN  (/\ r.event_type = "door_trial"
             /\ Has(d, "choice")
             /\ Has(d, "suggestion")
             /\ ~Has(d, "followed"))
            => /\ r.response[2] = (IF d.choice = d.suggestion THEN "true" ELSE "false")
               /\ Has(r, "followed")
               /\ r.followed = (d.choice = d.suggestion)

\* The record {choice: 'right', suggestion: 'left'} gave a row whose
\* response encodes followed false and whose followed field is false.
C17_Witness ==
    /\ Len(allTrials) = 1
    /\ Len(result) = 1
    /\ Has(allTrials[1], "choice")
    /\ Has(allTrials[1], "suggestion")
    /\ ~Has(allTrials[1], "followed")
    /\ allTrials[1].choice = "right"
    /\ allTrials[1].suggestion = "left"
    /\ result[1].response[2] = "false"
    /\ result[1].followed = FALSE

\* C18: row_id format.  In every row returned, row_id is null exactly when
\* ts_seq is null, and otherwise it is the row's own session_id, ':' and its
\* ts_seq.
C18_RowIdFormat ==
    \A i \in 1..Len(result) :
        LET r == result[i]
        IN  /\ Has(r, "row_id") <=> Has(r, "ts_seq")
            /\ Has(r, "ts_seq") => r.row_id = <<r.session_id, ":", r.ts_seq>>

\* The ts_seq values of a sequence of rows, in order.
SeqOf(q) == [i \in 1..Len(q) |-> q[i].ts_seq]

\* C19: monotonic sequence.  The rows enqueued through logTrialRow carry
\* ts_seq values that increase strictly in call order, in the mirror and in
\* the store, and all lie below the next stamp, whether or not calls in
\* between were filtered out or threw; and a logTrialRow call made in
\* discard mode leaves window.LOG_SEQ as it is.
C19_MonotonicSeq ==
    /\ [](\A q \in {SeqOf(LOG_BUFFER), SeqOf(RowSeq(idb)), SeqOf(ls)} :
            /\ \A i, j \in 1..Len(q) : i < j => q[i] < q[j]
            /\ \A i \in 1..Len(q) : q[i] >= 1 /\ q[i] < StampSeq)
    /\ [][(DISCARD_DATA /\ calls' = calls + 1) => LOG_SEQ' = LOG_SEQ]_vars

\* Three calls: the first threw after setting the user-agent flag, the
\* second gave no row either, the third gave the one row queued: it carries
\* ts_seq 3 and no user agent.
C19_Witness ==
    /\ calls = 3
    /\ Len(LOG_BUFFER) = 1
    /\ LOG_BUFFER[1].ts_seq = 3
    /\ ~Has(LOG_BUFFER[1], "user_agent")
    /\ LOG_SEQ = 4

\* The keys of a row that hold file references.
AssetFields == {"victim_skin", "background_src", "door_src", "victim_src"}

\* C20: no path leakage.  When a record's victim_src, background_src or
\* door_src has a directory part, no field of its row holds that reference
\* in full.
C20_NoPathLeak ==
    (Len(allTrials) = 1 /\ Len(result) = 1) =>
        \A k \in {"victim_src", "background_src", "door_src"} :
            (Has(allTrials[1], k) /\ Len(allTrials[1][k]) > 1)
            => \A f \in AssetFields \cap DOMAIN result[1] : result[1][f] # allTrials[1][k]

\* C21: emergency flush size cap.  Every payload flushSyncBeacon has handed
\* to sendBeacon has a body of at most 60000 bytes and was cut from a
\* non-empty mirror; a call on an empty mirror sends nothing.
C21_BeaconSizeCap ==
    /\ \A i \in 1..Len(beacons) :
            /\ BodySize(beacons[i].rows) <= maxBytes
            /\ beacons[i].buf # <<>>
    /\ (nrows = 0) => (beacons = <<>>)

\* A payload was sent that is shorter than the window it was cut from: the
\* whole window was over the cap and the loop shrank it.
C21_Witness ==
    \E i \in 1..Len(beacons) :
        /\ Len(beacons[i].rows) < Min(LOG_BATCH_SIZE, Len(beacons[i].buf))
        /\ fsb.calls = MaxHides

IsSuffix(rows, buf) ==
    /\ Len(rows) <= Len(buf)
    /\ rows = SubSeq(buf, Len(buf) - Len(rows) + 1, Len(buf))

\* C22: emergency flush prefers the most recent rows.  Every payload sent is
\* a suffix of the mirror it was cut from, so it includes the row enqueued
\* last.
C22_BeaconTail ==
    \A i \in 1..Len(beacons) :
        /\ IsSuffix(beacons[i].rows, beacons[i].buf)
        /\ beacons[i].buf[Len(beacons[i].buf)] \in Range(beacons[i].rows)

\* C23: emergency flush always returns.  Every pass of the shrink loop either
\* leaves the loop or makes the slice strictly shorter.
C23_BeaconProgress ==
    [][fsb.pc = "loop" => (fsb'.pc = "idle" \/ fsb'.end - fsb'.sliceStart < fsb.end - fsb.sliceStart)]_vars

\* A step in which the idbPutAll of an enqueue completes without storing.
PutFailed ==
    /\ opq # <<>>
    /\ Head(opq).kind = "put"
    /\ Head(opq).rows # <<>>
    /\ opq' = Tail(opq)
    /\ UNCHANGED storeVars

\* C24: storage failures are swallowed.  When the persistent write of an
\* enqueue fails, in either backend, no logEnqueue promise rejects and the
\* rows stay in the mirror.
C24_StorageSwallowed ==
    [][PutFailed => (rejected' = rejected /\ Range(Head(opq).rows) \subseteq Range(LOG_BUFFER'))]_vars

\* The queue as the delivery engine reaches it through the backend in use.
Queue == IF idbAvailable THEN RowSeq(idb) ELSE ls

\* A step in which the storage operation at the head of opq completes: opq
\* loses its head, and gains at most the operation the continuation issues.
Done(kind) ==
    /\ opq # <<>>
    /\ Head(opq).kind = kind
    /\ \/ Len(opq') < Len(opq)
       \/ (Len(opq') = Len(opq) /\ opq' # opq)

\* C25: backend transparency.  In both backends the four store operations
\* act on the queue of rows in the same way: a put appends its rows, a read
\* returns the first LOG_BATCH_SIZE rows and removes none, a delete removes
\* the rows of its batch and no others, a clear empties the queue, and no
\* other step changes it; the backend out of use holds nothing.
C25_BackendTransparency ==
    /\ [](IF idbAvailable THEN ls = <<>> ELSE idb = <<>>)
    /\ [][CASE Done("put") -> Queue' = Queue \o Head(opq).rows
             [] Done("read") -> /\ Queue' = Queue
                                /\ RowSeq(drains'[Head(opq).slot].batch)
                                      = SubSeq(Queue, 1, Min(LOG_BATCH_SIZE, Len(Queue)))
             [] Done("del") -> Queue' = SelectSeq(Queue, LAMBDA r : r \notin Rows(Head(opq).batch))
             [] Done("clear") -> Queue' = <<>>
             [] OTHER -> Queue' = Queue]_vars

\* The fallback backend after a drain iteration: an acknowledged batch was
\* deleted and the rows enqueued after it are still queued, in order.
C25_Witness ==
    /\ ~idbAvailable
    /\ ~DISCARD_DATA
    /\ acked # {}
    /\ acked \cap Range(ls) = {}
    /\ Len(ls) >= 2

\* C26: the fallback positional delete is exact.  In the localStorage
\* backend every completed idbDeleteIds removes no row outside its batch,
\* and, unless withdrawal has emptied the queue, removes exactly the batch:
\* the array was the batch followed by what is left.
C26_PositionalDeleteExact ==
    [][(~idbAvailable /\ Done("del"))
         => /\ Range(ls) \ Range(ls') \subseteq Rows(Head(opq).batch)
            /\ (~DISCARD_DATA => ls = RowSeq(Head(opq).batch) \o ls')]_vars

\* The fallback backend with a delete about to run for a batch that was not
\* full, while the array holds more rows than the batch: a logEnqueue was
\* persisted between the read and the delete.
C26_Witness ==
    /\ ~idbAvailable
    /\ ~DISCARD_DATA
    /\ opq # <<>>
    /\ Head(opq).kind = "del"
    /\ Len(Head(opq).batch) < LOG_BATCH_SIZE
    /\ Len(ls) > Len(Head(opq).batch)

\* C27: the mirror covers undelivered rows.  While discard mode has never
\* been set, every row handed to logEnqueue that is not in an acknowledged
\* batch is in the in-memory mirror.
C27_MirrorCoversUndelivered ==
    ~DISCARD_DATA => ((1..nrows) \ acked) \subseteq Range(LOG_BUFFER)

\* C28: delete stays in the backend that was read.  Whatever idbOpen yields
\* for each store operation, a completed idbDeleteIds removes no row outside
\* its batch, and when clearLocalQueue's clear completes no row is left in
\* either backend.
C28_DeleteStaysInBackend ==
    /\ [][Done("del") => (StoreRows \ StoreRows') \subseteq Rows(Head(opq).batch)]_vars
    /\ [][Done("clear") => StoreRows' = {}]_vars

\* A flushQueue invocation ends: its finally block resets the flag.
DrainEnds == LOG_FLUSHING /\ ~LOG_FLUSHING'

\* End state (a): an empty batch was read, the counter is 0, the mirror is
\* cleared and the store is empty.
EndDrained ==
    /\ Done("read")
    /\ LOG_RETRY_ATTEMPTS' = 0
    /\ LOG_BUFFER' = <<>>
    /\ StoreRows' = {}

\* End state (b): a send failed, the counter was incremented and a flush
\* timer is pending.
EndBackoff ==
    /\ LOG_RETRY_ATTEMPTS' = LOG_RETRY_ATTEMPTS + 1
    /\ LOG_BACKOFF_TIMER'
    /\ timers' # <<>>

\* C29: the drain releases its guard.  The in-progress flag is set only
\* while a flushQueue invocation is running, and every invocation that ends
\* ends in state (a) or in state (b), also when a storage operation reports
\* an error.
C29_DrainEndStates ==
    /\ [](LOG_FLUSHING => ActiveDrains # {})
    /\ [][DrainEnds => (EndDrained \/ EndBackoff)]_vars

\* A logTrialRow call made outside discard mode.
TrialCall == calls' = calls + 1 /\ ~DISCARD_DATA

\* C30: error isolation in logTrialRow.  A call whose row construction
\* raises has its exception taken by the catch block and adds nothing to the
\* mirror or the store; every call with a record that is allow-listed and
\* can be normalized, also after such a failure, enqueues its one row.
C30_ErrorIsolation ==
    [][TrialCall =>
        /\ threw' => /\ caught' = caught + 1
                      /\ LOG_BUFFER' = LOG_BUFFER
                      /\ opq' = opq
                      /\ UNCHANGED storeVars
        /\ (~Dropped(allTrials'[1]) /\ ~Throws(allTrials'[1]))
              => /\ ~threw'
                 /\ caught' = caught
                 /\ Len(result') = 1
                 /\ LOG_BUFFER' = LOG_BUFFER \o result'
                 /\ opq' = Append(opq, Op("put", 0, result', <<>>))]_vars

\* An earlier call raised and was caught, and the last call built one row,
\* which is now the newest row of the mirror.
C30_Witness ==
    /\ caught >= 1
    /\ ~threw
    /\ Len(result) = 1
    /\ LOG_BUFFER # <<>>
    /\ LOG_BUFFER[Len(LOG_BUFFER)] = result[1]
    /\ result[1].ts_seq > caught

====
